---- MODULE Spec2Model ----
(***************************************************************************)
(* Journalin backend (api_backend.py): a FastAPI application with one stub *)
(* endpoint (POST /api/plan) and three proxy endpoints that forward a GET  *)
(* to Nominatim or Google Places through _safe_get.                        *)
(*                                                                         *)
(* Text is modelled as a sequence of one-character strings, so that        *)
(* urllib.parse.quote, the f-string URL construction and the upstream's    *)
(* reading of the query string are computed character by character.        *)
(***************************************************************************)
EXTENDS Integers, Sequences, FiniteSets, TLC

VARIABLES
    GOOGLE_PLACES_API_KEY,  \* module global, read once from the environment
    pc,        \* per request: "none" | "pending" | "upstream" | "done"
    request,   \* per request: the inbound HTTP request
    handler,   \* per request: the path operation function entered, "" if none
    calls,     \* per request: the outbound upstream GETs issued for it
    reply,     \* per request: what the upstream answered (NoReply before)
    response,  \* per request: the HTTP response given to the caller
    loop       \* the request whose handler occupies the event loop, 0 if idle

vars == <<GOOGLE_PLACES_API_KEY, pc, request, handler, calls, reply, response, loop>>

----------------------------------------------------------------------------
(* Bounds *)

\* number of inbound requests of one behaviour
MaxReq == 2

Ids == 1 .. MaxReq

----------------------------------------------------------------------------
(* Small helpers on sequences *)

RECURSIVE Flatten(_)
Flatten(ss) == IF ss = <<>> THEN <<>> ELSE Head(ss) \o Flatten(Tail(ss))

Range(s) == {s[i] : i \in 1 .. Len(s)}

\* index of the first occurrence of c in s, Len(s)+1 if there is none
RECURSIVE IndexFrom(_, _, _)
IndexFrom(s, c, i) ==
    IF i > Len(s) THEN Len(s) + 1
    ELSE IF s[i] = c THEN i ELSE IndexFrom(s, c, i + 1)

IndexOf(s, c) == IndexFrom(s, c, 1)

\* str.split(c) : the pieces of s between the occurrences of c
RECURSIVE Split(_, _)
Split(s, c) ==
    LET i == IndexOf(s, c) IN
    IF i > Len(s) THEN <<s>>
    ELSE <<SubSeq(s, 1, i - 1)>> \o Split(SubSeq(s, i + 1, Len(s)), c)

\* s occurs in t as a contiguous run
Occurs(s, t) ==
    \E i \in 0 .. (Len(t) - Len(s)) : SubSeq(t, i + 1, i + Len(s)) = s

----------------------------------------------------------------------------
(* urllib.parse.quote(s) with its default safe = "/" *)

AlwaysSafe ==
    { "a", "b", "c", "d", "e", "f", "g", "h", "i", "j", "k", "l", "m",
      "n", "o", "p", "q", "r", "s", "t", "u", "v", "w", "x", "y", "z",
      "A", "B", "C", "D", "E", "F", "G", "H", "I", "J", "K", "L", "M",
      "N", "O", "P", "Q", "R", "S", "T", "U", "V", "W", "X", "Y", "Z",
      "0", "1", "2", "3", "4", "5", "6", "7", "8", "9",
      "_", ".", "-", "~" }

\* the characters RFC 3986 reserves, and the space and '%' a URL cannot
\* carry raw
Reserved ==
    { ":", "/", "?", "#", "[", "]", "@", "!", "$", "&", "'", "(", ")",
      "*", "+", ",", ";", "=", " ", "%" }

\* the UTF-8 bytes of a character as %XX escapes
PercentEscape(c) ==
    CASE c = " " -> <<"%", "2", "0">>
      [] c = "&" -> <<"%", "2", "6">>
      [] c = "=" -> <<"%", "3", "D">>
      [] c = "#" -> <<"%", "2", "3">>
      [] c = "?" -> <<"%", "3", "F">>
      [] c = "%" -> <<"%", "2", "5">>
      [] c = "," -> <<"%", "2", "C">>
      [] c = "/" -> <<"%", "2", "F">>
      [] c = "+" -> <<"%", "2", "B">>
      [] c = "é" -> <<"%", "C", "3", "%", "A", "9">>

\* quote leaves the always-safe characters and those of `safe` alone
QuoteSafeDefault == {"/"}

QuoteChar(c) ==
    IF c \in AlwaysSafe \cup QuoteSafeDefault THEN <<c>> ELSE PercentEscape(c)

quote(s) == Flatten([i \in 1 .. Len(s) |-> QuoteChar(s[i])])

----------------------------------------------------------------------------
(* JSON values, and json.loads on a lexed payload *)

JString(s) == [t |-> "string", s |-> s]
JNumber(s) == [t |-> "number", s |-> s]
JArray(items) == [t |-> "array", items |-> items]
\* members is a sequence of <<key, value>> pairs, in document order
JObject(members) == [t |-> "object", members |-> members]

Punct(s) == [tok |-> "punct", s |-> s]
StrTok(s) == [tok |-> "string", s |-> s]
NumTok(s) == [tok |-> "number", s |-> s]
JunkTok(s) == [tok |-> "junk", s |-> s]

ParseFail == [ok |-> FALSE, val |-> JString(""), next |-> 0]
ParseOk(v, n) == [ok |-> TRUE, val |-> v, next |-> n]

RECURSIVE ParseValue(_, _)
RECURSIVE ParseItems(_, _, _)
RECURSIVE ParseMembers(_, _, _)

ParseValue(toks, i) ==
    IF i > Len(toks) THEN ParseFail
    ELSE LET t == toks[i] IN
         CASE t.tok = "string" -> ParseOk(JString(t.s), i + 1)
           [] t.tok = "number" -> ParseOk(JNumber(t.s), i + 1)
           [] t = Punct("[") -> ParseItems(toks, i + 1, <<>>)
           [] t = Punct("{") -> ParseMembers(toks, i + 1, <<>>)
           [] OTHER -> ParseFail

\* the elements of an array, after "[" or after ","
ParseItems(toks, i, acc) ==
    IF i > Len(toks) THEN ParseFail
    ELSE IF toks[i] = Punct("]") /\ acc = <<>> THEN ParseOk(JArray(acc), i + 1)
    ELSE LET r == ParseValue(toks, i) IN
         IF ~r.ok \/ r.next > Len(toks) THEN ParseFail
         ELSE IF toks[r.next] = Punct("]")
              THEN ParseOk(JArray(Append(acc, r.val)), r.next + 1)
         ELSE IF toks[r.next] = Punct(",")
              THEN ParseItems(toks, r.next + 1, Append(acc, r.val))
         ELSE ParseFail

\* the members of an object, after "{" or after ","
ParseMembers(toks, i, acc) ==
    IF i > Len(toks) THEN ParseFail
    ELSE IF toks[i] = Punct("}") /\ acc = <<>> THEN ParseOk(JObject(acc), i + 1)
    ELSE IF toks[i].tok # "string" \/ i + 1 > Len(toks) THEN ParseFail
    ELSE IF toks[i + 1] # Punct(":") THEN ParseFail
    ELSE LET r == ParseValue(toks, i + 2) IN
         IF ~r.ok \/ r.next > Len(toks) THEN ParseFail
         ELSE IF toks[r.next] = Punct("}")
              THEN ParseOk(JObject(Append(acc, <<toks[i].s, r.val>>)), r.next + 1)
         ELSE IF toks[r.next] = Punct(",")
              THEN ParseMembers(toks, r.next + 1, Append(acc, <<toks[i].s, r.val>>))
         ELSE ParseFail

\* a result of a call that may raise
Returned(v) == [raised |-> FALSE, value |-> v, error |-> ""]
Raised(msg) == [raised |-> TRUE, value |-> JString(""), error |-> msg]

JSONDecodeErrorText == "Expecting value: line 1 column 1 (char 0)"

json_loads(payload) ==
    LET r == ParseValue(payload, 1) IN
    IF r.ok /\ r.next = Len(payload) + 1 THEN Returned(r.val)
    ELSE Raised(JSONDecodeErrorText)

----------------------------------------------------------------------------
(* The upstream's answer to one GET, and urllib.request.urlopen on it *)

\* net = FALSE : no HTTP exchange took place (connection refused, DNS, ...)
UpstreamReply(net, status, reason, payload) ==
    [net |-> net, status |-> status, reason |-> reason, payload |-> payload]

NoReply == UpstreamReply(FALSE, 0, "", <<>>)

URLErrorText == "<urlopen error [Errno 111] Connection refused>"

HTTPErrorText(rep) == "HTTP Error " \o ToString(rep.status) \o ": " \o rep.reason

\* mutant: the body is read whatever the status
urlopen_AnyStatus(rep) ==
    IF ~rep.net THEN Raised(URLErrorText)
    ELSE [raised |-> FALSE, value |-> rep.payload, error |-> ""]

\* urlopen raises URLError when the exchange fails and HTTPError on a status
\* outside 2xx; otherwise res.read().decode() is the body
urlopen(rep) ==
    IF ~rep.net THEN Raised(URLErrorText)
    ELSE IF ~(rep.status >= 200 /\ rep.status < 300) THEN Raised(HTTPErrorText(rep))
    ELSE [raised |-> FALSE, value |-> rep.payload, error |-> ""]

----------------------------------------------------------------------------
(* HTTP responses given to the caller *)

Response(status, body) == [status |-> status, body |-> body]

NoResponse == Response(0, JString(""))

\* raise HTTPException(status_code, detail)
HTTPException(status_code, detail) ==
    Response(status_code, JObject(<< <<"detail", JString(detail)>> >>))

\* the framework's answer to a request that fails validation
RequestValidationError == HTTPException(422, "Unprocessable Entity")

\* mutant: the declared return type dict is enforced
safe_get_DictOnly(rep) ==
    LET res == urlopen(rep) IN
    IF res.raised
    THEN HTTPException(502, "Upstream request failed: " \o res.error)
    ELSE LET loaded == json_loads(res.value) IN
         IF loaded.raised
         THEN HTTPException(502, "Upstream request failed: " \o loaded.error)
         ELSE IF loaded.value.t # "object"
         THEN HTTPException(502, "Upstream request failed: not an object")
         ELSE Response(200, loaded.value)

\* _safe_get, from the upstream's answer on: the decoded JSON value, or 502
safe_get(rep) ==
    LET res == urlopen(rep) IN
    IF res.raised
    THEN HTTPException(502, "Upstream request failed: " \o res.error)
    ELSE LET loaded == json_loads(res.value) IN
         IF loaded.raised
         THEN HTTPException(502, "Upstream request failed: " \o loaded.error)
         ELSE Response(200, loaded.value)

----------------------------------------------------------------------------
(* Request bodies of POST /api/plan and their schemas.                       *)
(* A JSON value of a body is [k |-> kind, ...]: kind "object" carries f, a  *)
(* function from the member names present to their values.                  *)

BStr(v) == [k |-> "str", v |-> v]
BInt(v) == [k |-> "int", v |-> v]
BFloat(v) == [k |-> "float", v |-> v]
BBool(v) == [k |-> "bool", v |-> v]
BList(items) == [k |-> "list", items |-> items]
BObject(f) == [k |-> "object", f |-> f]

UserProfile ==
    [chronotype |-> "str", pace |-> "int", interests |-> "List[str]",
     foodScale |-> "float", foodTags |-> "List[str]", budget |-> "str"]

SafetyToggles ==
    [filterShredder |-> "bool", bbGuard |-> "bool", noQueueMode |-> "bool"]

TripConfig ==
    [destination |-> "str", startDate |-> "str", endDate |-> "str",
     passengers |-> "int", safetyToggles |-> "SafetyToggles",
     accommodation |-> "str", transport |-> "str", customNote |-> "str"]

\* the parameters of create_plan: two body models, embedded by name
CreatePlanBody == [profile |-> "UserProfile", config |-> "TripConfig"]

Schema(type) ==
    CASE type = "UserProfile" -> UserProfile
      [] type = "SafetyToggles" -> SafetyToggles
      [] type = "TripConfig" -> TripConfig
      [] type = "CreatePlanBody" -> CreatePlanBody

ModelTypes == {"UserProfile", "SafetyToggles", "TripConfig", "CreatePlanBody"}

\* a value is accepted for a declared type: every declared member is present
\* and accepted for its own type; members not declared are ignored
RECURSIVE Accepts(_, _)
Accepts(type, val) ==
    CASE type = "str" -> val.k = "str"
      [] type = "int" -> val.k = "int"
      [] type = "float" -> val.k \in {"float", "int"}
      [] type = "bool" -> val.k = "bool"
      [] type = "List[str]" ->
            /\ val.k = "list"
            /\ \A i \in 1 .. Len(val.items) : Accepts("str", val.items[i])
      [] type \in ModelTypes ->
            /\ val.k = "object"
            /\ \A m \in DOMAIN Schema(type) :
                  /\ m \in DOMAIN val.f
                  /\ Accepts(Schema(type)[m], val.f[m])

----------------------------------------------------------------------------
(* Inbound requests and the validation the declared signatures ask for *)

PlanRequest(body) == [op |-> "create_plan", body |-> body, params |-> <<>>]
GetRequest(op, params) == [op |-> op, body |-> BObject(<<>>), params |-> params]

NoRequest == [op |-> "none", body |-> BObject(<<>>), params |-> <<>>]

\* Query(..., min_length = n) of each GET parameter
MinLengthQ == 2
MinLengthQuery == 1
MinLengthPlaceId == 1
MinLengthFields == 1

DefaultFields ==
    <<"o", "p", "e", "n", "i", "n", "g", "_", "h", "o", "u", "r", "s", ",",
      "n", "a", "m", "e">>

\* mutant: min_length is not enforced
RequiredQuery_AnyLength(params, name, min_length) == name \in DOMAIN params

\* a required query parameter: present and long enough
RequiredQuery(params, name, min_length) ==
    /\ name \in DOMAIN params
    /\ Len(params[name]) >= min_length

\* a query parameter with a default: long enough when present
OptionalQuery(params, name, min_length) ==
    name \in DOMAIN params => Len(params[name]) >= min_length

Validates(req) ==
    CASE req.op = "create_plan" -> Accepts("CreatePlanBody", req.body)
      [] req.op = "search_locations" -> RequiredQuery(req.params, "q", MinLengthQ)
      [] req.op = "places_textsearch" ->
            RequiredQuery(req.params, "query", MinLengthQuery)
      [] req.op = "places_details" ->
            /\ RequiredQuery(req.params, "place_id", MinLengthPlaceId)
            /\ OptionalQuery(req.params, "fields", MinLengthFields)

\* the value the handler receives for fields
FieldsArgument(params) ==
    IF "fields" \in DOMAIN params THEN params["fields"] ELSE DefaultFields

----------------------------------------------------------------------------
(* The outbound GET each proxy handler builds *)

NominatimEndpoint == "https://nominatim.openstreetmap.org/search"
TextsearchEndpoint == "https://maps.googleapis.com/maps/api/place/textsearch/json"
DetailsEndpoint == "https://maps.googleapis.com/maps/api/place/details/json"

NominatimQueryHead ==
    <<"?", "f", "o", "r", "m", "a", "t", "=", "j", "s", "o", "n", "&", "q", "=">>
NominatimQueryTail ==
    <<"&", "l", "i", "m", "i", "t", "=", "5", "&", "f", "e", "a", "t", "u", "r",
      "e", "t", "y", "p", "e", "=", "c", "i", "t", "y", ",", "c", "o", "u", "n",
      "t", "r", "y", "&", "a", "c", "c", "e", "p", "t", "-", "l", "a", "n", "g",
      "u", "a", "g", "e", "=", "e", "n">>
TextsearchQueryHead == <<"?", "q", "u", "e", "r", "y", "=">>
DetailsQueryHead == <<"?", "p", "l", "a", "c", "e", "_", "i", "d", "=">>
FieldsParam == <<"&", "f", "i", "e", "l", "d", "s", "=">>
KeyParam == <<"&", "k", "e", "y", "=">>

UserAgent == "JournalinTravelPlanner/1.0 (contact@example.com)"

NoHeaders == [h \in {} |-> ""]
NominatimHeaders == [h \in {"User-Agent"} |-> UserAgent]

\* a URL is its fixed endpoint, kept whole, followed by the characters of
\* the query string
Call(url, headers) == [url |-> url, headers |-> headers]

\* mutant: the headers are not passed on
SearchLocationsCall_NoHeaders(q) ==
    Call(<<NominatimEndpoint>> \o NominatimQueryHead \o quote(q)
             \o NominatimQueryTail,
         NoHeaders)

SearchLocationsCall(q) ==
    LET encoded_q == quote(q) IN
    Call(<<NominatimEndpoint>> \o NominatimQueryHead \o encoded_q
             \o NominatimQueryTail,
         NominatimHeaders)

PlacesTextsearchCall(key, query) ==
    LET encoded_query == quote(query) IN
    Call(<<TextsearchEndpoint>> \o TextsearchQueryHead \o encoded_query
             \o KeyParam \o key,
         NoHeaders)

PlacesDetailsCall(key, place_id, fields) ==
    LET encoded_place_id == quote(place_id)
        encoded_fields == quote(fields)
    IN  Call(<<DetailsEndpoint>> \o DetailsQueryHead \o encoded_place_id
                 \o FieldsParam \o encoded_fields \o KeyParam \o key,
             NoHeaders)

\* os.environ.get: None when the variable is unset
NoneKey == [present |-> FALSE, value |-> <<>>]
KeyOf(value) == [present |-> TRUE, value |-> value]

\* mutant: only the empty string is taken for a missing credential
KeyMissing_EmptyOnly(key) == key.present /\ key.value = <<>>

\* `not GOOGLE_PLACES_API_KEY` : None and the empty string are both falsy
KeyMissing(key) == ~key.present \/ key.value = <<>>

ConfigurationError ==
    HTTPException(500, "GOOGLE_PLACES_API_KEY is not configured.")

\* mutant: the acknowledgement is sent with status 201
PlanResponse_Created ==
    Response(201, JObject(<< <<"message", JString("Plan generated successfully")>> >>))

PlanResponse ==
    Response(200, JObject(<< <<"message", JString("Plan generated successfully")>> >>))

----------------------------------------------------------------------------
(* The inputs the clients and the upstreams draw from *)

Cafe == <<"c", "a", "f", "é", " ", "&", " ", "c", "o">>
Inject == <<"x", "&", "k", "e", "y", "=", "y", "#">>
Slashes == <<"a", "/", "b", "?", "c", "%", "+", ",">>

Texts == {<<>>, <<"a">>, <<"a", "b">>, Cafe, Inject, Slashes}

ApiKey == <<"A", "I", "z", "a", "9">>

Credentials == {NoneKey, KeyOf(<<>>), KeyOf(ApiKey)}

ValidProfile ==
    BObject([chronotype |-> BStr("owl"), pace |-> BInt("3"),
             interests |-> BList(<<BStr("art"), BStr("food")>>),
             foodScale |-> BFloat("0.5"), foodTags |-> BList(<<>>),
             budget |-> BStr("mid")])

ValidToggles ==
    BObject([filterShredder |-> BBool("true"), bbGuard |-> BBool("false"),
             noQueueMode |-> BBool("true")])

ValidConfig ==
    BObject([destination |-> BStr("Paris"), startDate |-> BStr("2025-01-01"),
             endDate |-> BStr("2025-01-05"), passengers |-> BInt("2"),
             safetyToggles |-> ValidToggles, accommodation |-> BStr("hotel"),
             transport |-> BStr("train"), customNote |-> BStr("")])

\* other values of the same types: an end before the start, no passengers,
\* a whole number for the float, an undeclared member
OtherProfile ==
    BObject([chronotype |-> BStr(""), pace |-> BInt("-7"),
             interests |-> BList(<<>>), foodScale |-> BInt("9"),
             foodTags |-> BList(<<BStr("vegan")>>), budget |-> BStr("??"),
             nickname |-> BStr("x")])

OtherConfig ==
    BObject([destination |-> BStr(""), startDate |-> BStr("2025-01-05"),
             endDate |-> BStr("not a date"), passengers |-> BInt("0"),
             safetyToggles |-> ValidToggles, accommodation |-> BStr(""),
             transport |-> BStr(""), customNote |-> BStr("<script>")])

Without(obj, m) == BObject([x \in DOMAIN obj.f \ {m} |-> obj.f[x]])
With(obj, m, v) ==
    BObject([x \in DOMAIN obj.f \cup {m} |-> IF x = m THEN v ELSE obj.f[x]])

\* a value the declared type rejects
Mistyped(type) ==
    CASE type = "str" -> BList(<<>>)
      [] type = "int" -> BStr("many")
      [] type = "float" -> BStr("lots")
      [] type = "bool" -> BStr("maybe")
      [] type = "List[str]" -> BStr("art")
      [] type \in ModelTypes -> BStr("none")

PlanBody(profile, config) == BObject([profile |-> profile, config |-> config])

\* the defects of one member of an object of the given schema
Defects(obj, type) ==
    {Without(obj, m) : m \in DOMAIN Schema(type)}
        \cup {With(obj, m, Mistyped(Schema(type)[m])) : m \in DOMAIN Schema(type)}

ValidBodies ==
    {PlanBody(ValidProfile, ValidConfig), PlanBody(OtherProfile, OtherConfig)}

MalformedBodies ==
    {PlanBody(p, ValidConfig) : p \in Defects(ValidProfile, "UserProfile")}
        \cup {PlanBody(ValidProfile, c) : c \in Defects(ValidConfig, "TripConfig")}
        \cup {PlanBody(ValidProfile, With(ValidConfig, "safetyToggles", t)) :
                 t \in Defects(ValidToggles, "SafetyToggles")}
        \cup Defects(PlanBody(ValidProfile, ValidConfig), "CreatePlanBody")
        \cup {BList(<<>>)}

Bodies == ValidBodies \cup MalformedBodies

PlaceIds == {<<>>, <<"X", "9">>, Inject}
FieldsValues == {<<>>, <<"n", "a", "m", "e">>, Cafe}

Requests ==
    {PlanRequest(b) : b \in Bodies}
        \cup {GetRequest("search_locations", [q |-> t]) : t \in Texts}
        \cup {GetRequest("places_textsearch", [query |-> t]) : t \in Texts}
        \cup {GetRequest("places_details", [place_id |-> p]) : p \in PlaceIds}
        \cup {GetRequest("places_details", [place_id |-> p, fields |-> f]) :
                 p \in PlaceIds, f \in FieldsValues}
        \cup {GetRequest(op, <<>>) :
                 op \in {"search_locations", "places_textsearch", "places_details"}}

\* the requests of the runs with several clients
Traffic ==
    {PlanRequest(PlanBody(ValidProfile, ValidConfig)),
     PlanRequest(PlanBody(OtherProfile, OtherConfig)),
     PlanRequest(PlanBody(Without(ValidProfile, "pace"), ValidConfig)),
     PlanRequest(PlanBody(ValidProfile,
                          With(ValidConfig, "passengers", Mistyped("int")))),
     GetRequest("search_locations", [q |-> <<"a">>]),
     GetRequest("search_locations", [q |-> <<"a", "b">>]),
     GetRequest("search_locations", [q |-> Cafe]),
     GetRequest("places_textsearch", [query |-> <<>>]),
     GetRequest("places_textsearch", [query |-> Inject]),
     GetRequest("places_details", [place_id |-> <<"X", "9">>]),
     GetRequest("places_details", [place_id |-> Inject, fields |-> Cafe]),
     GetRequest("places_details", [place_id |-> <<"X", "9">>, fields |-> <<>>])}

\* lexed bodies an upstream may send with a 2xx status
ArrayPayload ==
    <<Punct("["), Punct("{"), StrTok("display_name"), Punct(":"),
      StrTok("Paris"), Punct(","), StrTok("place_id"), Punct(":"), NumTok("7"),
      Punct("}"), Punct("]")>>
ObjectPayload ==
    <<Punct("{"), StrTok("status"), Punct(":"), StrTok("OK"), Punct(","),
      StrTok("results"), Punct(":"), Punct("["), Punct("]"), Punct("}")>>
HtmlPayload == <<JunkTok("<html>")>>
EmptyPayload == <<>>

Replies ==
    {UpstreamReply(FALSE, 0, "", <<>>),
     UpstreamReply(TRUE, 404, "Not Found", HtmlPayload),
     UpstreamReply(TRUE, 503, "Service Unavailable", ObjectPayload),
     UpstreamReply(TRUE, 200, "OK", HtmlPayload),
     UpstreamReply(TRUE, 200, "OK", EmptyPayload),
     UpstreamReply(TRUE, 200, "OK", ArrayPayload),
     UpstreamReply(TRUE, 200, "OK", ObjectPayload)}

----------------------------------------------------------------------------
(* The application *)

Init ==
    /\ GOOGLE_PLACES_API_KEY \in Credentials
    /\ pc = [r \in Ids |-> "none"]
    /\ request = [r \in Ids |-> NoRequest]
    /\ handler = [r \in Ids |-> ""]
    /\ calls = [r \in Ids |-> <<>>]
    /\ reply = [r \in Ids |-> NoReply]
    /\ response = [r \in Ids |-> NoResponse]
    /\ loop = 0

\* a client sends a request; it waits in the socket until the event loop
\* reads it.  Requests are numbered in the order they arrive.
Receive(r, req) ==
    /\ pc[r] = "none"
    /\ \A s \in Ids : s < r => pc[s] # "none"
    /\ pc' = [pc EXCEPT ![r] = "pending"]
    /\ request' = [request EXCEPT ![r] = req]
    /\ UNCHANGED <<GOOGLE_PLACES_API_KEY, handler, calls, reply, response, loop>>

\* the event loop is free to run the next callback: uvicorn.run serves the
\* application on one loop, and every handler is an `async def` that runs on
\* it without awaiting
LoopIdle == loop = 0

\* the framework calls the path operation function
Enter(r, name) == handler' = [handler EXCEPT ![r] = name]

\* mutant: the response object is shared with the requests already answered
Respond_Shared(r, resp) ==
    /\ pc' = [pc EXCEPT ![r] = "done"]
    /\ response' = [s \in Ids |-> IF s = r \/ pc[s] = "done" THEN resp
                                  ELSE response[s]]
    /\ loop' = 0

\* the request ends with a response
Respond(r, resp) ==
    /\ pc' = [pc EXCEPT ![r] = "done"]
    /\ response' = [response EXCEPT ![r] = resp]
    /\ loop' = 0

\* mutant: the GET is sent a second time
EnterSafeGet_Retry(r, call) ==
    /\ pc' = [pc EXCEPT ![r] = "upstream"]
    /\ calls' = [calls EXCEPT ![r] = Append(Append(@, call), call)]
    /\ loop' = r
    /\ UNCHANGED <<GOOGLE_PLACES_API_KEY, request, reply, response>>

\* the handler enters _safe_get: urlopen sends the GET and blocks the thread
\* of the event loop until the upstream answers
EnterSafeGet(r, call) ==
    /\ pc' = [pc EXCEPT ![r] = "upstream"]
    /\ calls' = [calls EXCEPT ![r] = Append(@, call)]
    /\ loop' = r
    /\ UNCHANGED <<GOOGLE_PLACES_API_KEY, request, reply, response>>

\* a request that fails validation is answered before any handler runs
RejectInvalid(r) ==
    /\ LoopIdle
    /\ pc[r] = "pending"
    /\ ~Validates(request[r])
    /\ Respond(r, RequestValidationError)
    /\ UNCHANGED <<GOOGLE_PLACES_API_KEY, request, handler, calls, reply>>

create_plan(r) ==
    /\ LoopIdle
    /\ pc[r] = "pending"
    /\ request[r].op = "create_plan"
    /\ Validates(request[r])
    /\ Enter(r, "create_plan")
    /\ Respond(r, PlanResponse)
    /\ UNCHANGED <<GOOGLE_PLACES_API_KEY, request, calls, reply>>

search_locations(r) ==
    /\ LoopIdle
    /\ pc[r] = "pending"
    /\ request[r].op = "search_locations"
    /\ Validates(request[r])
    /\ Enter(r, "search_locations")
    /\ EnterSafeGet(r, SearchLocationsCall(request[r].params["q"]))

places_textsearch(r) ==
    /\ LoopIdle
    /\ pc[r] = "pending"
    /\ request[r].op = "places_textsearch"
    /\ Validates(request[r])
    /\ Enter(r, "places_textsearch")
    /\ IF KeyMissing(GOOGLE_PLACES_API_KEY)
       THEN /\ Respond(r, ConfigurationError)
            /\ UNCHANGED <<GOOGLE_PLACES_API_KEY, request, calls, reply>>
       ELSE EnterSafeGet(r, PlacesTextsearchCall(GOOGLE_PLACES_API_KEY.value,
                                                 request[r].params["query"]))

places_details(r) ==
    /\ LoopIdle
    /\ pc[r] = "pending"
    /\ request[r].op = "places_details"
    /\ Validates(request[r])
    /\ Enter(r, "places_details")
    /\ IF KeyMissing(GOOGLE_PLACES_API_KEY)
       THEN /\ Respond(r, ConfigurationError)
            /\ UNCHANGED <<GOOGLE_PLACES_API_KEY, request, calls, reply>>
       ELSE EnterSafeGet(r, PlacesDetailsCall(GOOGLE_PLACES_API_KEY.value,
                                              request[r].params["place_id"],
                                              FieldsArgument(request[r].params)))

\* the upstream answers (or the connection fails) and _safe_get returns or
\* raises; the handler relays the outcome
SafeGetReturns(r, rep) ==
    /\ pc[r] = "upstream"
    /\ loop = r
    /\ reply' = [reply EXCEPT ![r] = rep]
    /\ Respond(r, safe_get(rep))
    /\ UNCHANGED <<GOOGLE_PLACES_API_KEY, request, handler, calls>>

\* the handling of the requests received
Serve ==
    \/ \E r \in Ids : RejectInvalid(r)
    \/ \E r \in Ids : create_plan(r)
    \/ \E r \in Ids : search_locations(r)
    \/ \E r \in Ids : places_textsearch(r)
    \/ \E r \in Ids : places_details(r)
    \/ \E r \in Ids, rep \in Replies : SafeGetReturns(r, rep)

\* up to MaxReq clients, each sending one request of Traffic
Next ==
    \/ \E r \in Ids, req \in Traffic : Receive(r, req)
    \/ Serve

Spec == Init /\ [][Next]_vars

\* one client sending one request, any of Requests
NextOne ==
    \/ \E req \in Requests : Receive(1, req)
    \/ Serve

SpecOne == Init /\ [][NextOne]_vars

----------------------------------------------------------------------------
(* Vocabulary of the properties *)

PlacesOps == {"places_textsearch", "places_details"}
ProxyOps == {"search_locations"} \cup PlacesOps

\* the request asks for a parameter of at least n characters and has it
HasText(req, name, n) == name \in DOMAIN req.params /\ Len(req.params[name]) >= n

\* the GET requests whose parameters satisfy the declared minimum lengths
WellFormedGet(req) ==
    \/ req.op = "search_locations" /\ HasText(req, "q", 2)
    \/ req.op = "places_textsearch" /\ HasText(req, "query", 1)
    \/ /\ req.op = "places_details"
       /\ HasText(req, "place_id", 1)
       /\ ("fields" \in DOMAIN req.params => HasText(req, "fields", 1))

\* the ways an upstream exchange fails, and the text Python gives each
NetworkFailure(rep) == ~rep.net
BadStatus(rep) == rep.net /\ (rep.status < 200 \/ rep.status > 299)
MalformedJson(rep) ==
    rep.net /\ ~BadStatus(rep) /\ rep.payload \in {HtmlPayload, EmptyPayload}
UpstreamFailed(rep) == NetworkFailure(rep) \/ BadStatus(rep) \/ MalformedJson(rep)

FailureText(rep) ==
    IF NetworkFailure(rep) THEN "<urlopen error [Errno 111] Connection refused>"
    ELSE IF BadStatus(rep)
         THEN IF rep.status = 404 THEN "HTTP Error 404: Not Found"
              ELSE "HTTP Error 503: Service Unavailable"
    ELSE "Expecting value: line 1 column 1 (char 0)"

ErrorBody(text) == JObject(<< <<"detail", JString(text)>> >>)

\* the values the two well-formed payloads stand for
ArrayValue ==
    JArray(<< JObject(<< <<"display_name", JString("Paris")>>,
                         <<"place_id", JNumber("7")>> >>) >>)
ObjectValue ==
    JObject(<< <<"status", JString("OK")>>, <<"results", JArray(<<>>)>> >>)

DecodedValue(rep) == IF rep.payload = ArrayPayload THEN ArrayValue ELSE ObjectValue

\* what a proxied request must answer, given only the upstream's reply
RelayedOutcome(rep) ==
    IF UpstreamFailed(rep)
    THEN Response(502, ErrorBody("Upstream request failed: " \o FailureText(rep)))
    ELSE Response(200, DecodedValue(rep))

CredentialAbsent == ~GOOGLE_PLACES_API_KEY.present
CredentialUsable ==
    GOOGLE_PLACES_API_KEY.present /\ GOOGLE_PLACES_API_KEY.value # <<>>

Acknowledgement ==
    Response(200, JObject(<< <<"message", JString("Plan generated successfully")>> >>))

\* percent-decoding, as the upstream applies it to a parameter value
Escapable == {" ", "&", "=", "#", "?", "%", ",", "/", "+", "é"}

StartsWith(s, prefix) ==
    Len(s) >= Len(prefix) /\ SubSeq(s, 1, Len(prefix)) = prefix

RECURSIVE Unquote(_)
Unquote(s) ==
    IF s = <<>> THEN <<>>
    ELSE IF \E c \in Escapable : StartsWith(s, PercentEscape(c))
    THEN LET c == CHOOSE x \in Escapable : StartsWith(s, PercentEscape(x))
         IN  <<c>> \o Unquote(SubSeq(s, Len(PercentEscape(c)) + 1, Len(s)))
    ELSE <<Head(s)>> \o Unquote(Tail(s))

\* the query string of a URL as the upstream reads it: what follows "?" up
\* to a "#", cut at each "&", each piece cut at its first "="
QueryOf(url) ==
    LET rest == Tail(url)
        upto == SubSeq(rest, 1, IndexOf(rest, "#") - 1)
    IN  IF upto # <<>> /\ Head(upto) = "?" THEN Tail(upto) ELSE <<>>

ParamsOf(url) ==
    LET pieces == Split(QueryOf(url), "&") IN
    [i \in 1 .. Len(pieces) |->
        LET e == IndexOf(pieces[i], "=") IN
        <<SubSeq(pieces[i], 1, e - 1),
          Unquote(SubSeq(pieces[i], e + 1, Len(pieces[i])))>>]

Count(s, c) == Cardinality({i \in 1 .. Len(s) : s[i] = c})

----------------------------------------------------------------------------
(* C1: with the credential absent, a Places request that passes validation *)
(* ends with HTTP 500 and the configuration message and issues no upstream *)
(* call; create_plan and search_locations answer what they answer with the *)
(* credential present: the fixed acknowledgement, and the relay of the     *)
(* upstream's reply through a call that the credential does not enter.     *)
C1_MissingCredential ==
    \A r \in Ids :
        /\ (/\ CredentialAbsent
            /\ request[r].op \in PlacesOps
            /\ WellFormedGet(request[r]))
           => /\ calls[r] = <<>>
              /\ pc[r] \in {"pending", "done"}
              /\ pc[r] = "done" =>
                    response[r] =
                        Response(500, ErrorBody("GOOGLE_PLACES_API_KEY is not configured."))
        /\ (pc[r] = "done" /\ request[r].op = "create_plan"
                /\ request[r].body \in ValidBodies)
           => response[r] = Acknowledgement /\ calls[r] = <<>>
        /\ (pc[r] = "done" /\ request[r].op = "search_locations"
                /\ WellFormedGet(request[r]))
           => /\ response[r] = RelayedOutcome(reply[r])
              /\ Len(calls[r]) = 1
              /\ \/ GOOGLE_PLACES_API_KEY.value = <<>>
                 \/ ~Occurs(GOOGLE_PLACES_API_KEY.value, Tail(calls[r][1].url))

C1_Witness ==
    \E r, s \in Ids :
        /\ CredentialAbsent
        /\ pc[r] = "done" /\ request[r].op = "places_details"
        /\ response[r].status = 500
        /\ pc[s] = "done" /\ request[s].op = "search_locations"
        /\ response[s].status = 200

----------------------------------------------------------------------------
(* C2: when the single upstream call of a proxied request fails - network  *)
(* error, status outside 2xx, or a body that is not JSON - the request ends*)
(* with HTTP 502 whose detail embeds the description of the failure; the   *)
(* call was issued once and nothing but the error is returned.             *)
C2_UpstreamFailure ==
    \A r \in Ids :
        (pc[r] = "done" /\ calls[r] # <<>> /\ UpstreamFailed(reply[r]))
        => /\ request[r].op \in ProxyOps
           /\ response[r].status = 502
           /\ response[r].body =
                  ErrorBody("Upstream request failed: " \o FailureText(reply[r]))
           /\ Len(calls[r]) = 1

C2_Witness ==
    \E r, s \in Ids :
        /\ pc[r] = "done" /\ request[r].op = "places_details"
        /\ BadStatus(reply[r]) /\ response[r].status = 502
        /\ pc[s] = "done" /\ request[s].op = "search_locations"
        /\ MalformedJson(reply[s]) /\ response[s].status = 502

----------------------------------------------------------------------------
(* C9: when the upstream call succeeds with a body that is JSON, the       *)
(* response is status 200 with exactly the value the body stands for, be   *)
(* it an array or an object, for every proxy operation.                    *)
C9_RelayedVerbatim ==
    \A r \in Ids :
        (pc[r] = "done" /\ calls[r] # <<>> /\ ~UpstreamFailed(reply[r]))
        => response[r] = Response(200, DecodedValue(reply[r]))

C9_Witness ==
    \E r, s \in Ids :
        /\ pc[r] = "done" /\ request[r].op = "search_locations"
        /\ reply[r].payload = ArrayPayload /\ response[r].body = ArrayValue
        /\ pc[s] = "done" /\ request[s].op = "places_textsearch"
        /\ reply[s].payload = ArrayPayload /\ response[s].body = ArrayValue

----------------------------------------------------------------------------
(* C3: a request that fails structural validation - a plan body with a     *)
(* member missing or of the wrong type, a q shorter than 2, a query,       *)
(* place_id or fields shorter than 1 - gets a validation error, enters no  *)
(* handler and causes no upstream call; a q of exactly 2 characters is     *)
(* accepted and forwarded upstream.                                        *)
TooShort(req, name, n) == name \in DOMAIN req.params /\ Len(req.params[name]) < n

StructurallyInvalid(req) ==
    \/ req.op = "create_plan" /\ req.body \in MalformedBodies
    \/ req.op = "search_locations" /\ TooShort(req, "q", 2)
    \/ req.op = "places_textsearch" /\ TooShort(req, "query", 1)
    \/ req.op = "places_details"
          /\ (TooShort(req, "place_id", 1) \/ TooShort(req, "fields", 1))

AtBoundary(req) ==
    req.op = "search_locations" /\ "q" \in DOMAIN req.params
        /\ Len(req.params["q"]) = 2

----------------------------------------------------------------------------
(* C4: for every valid UserProfile/TripConfig pair, whatever the values,   *)
(* create_plan answers status 200 with exactly the fixed message, issues   *)
(* no upstream call and changes nothing else: the credential and every     *)
(* other request stay as they were.                                        *)
OthersUnchanged(r) ==
    \A s \in Ids \ {r} :
        /\ pc'[s] = pc[s] /\ request'[s] = request[s] /\ handler'[s] = handler[s]
        /\ calls'[s] = calls[s] /\ reply'[s] = reply[s]
        /\ response'[s] = response[s]

C4_CreatePlan ==
    [][\A r \in Ids :
          (/\ pc[r] = "pending" /\ pc'[r] # "pending"
           /\ request[r].op = "create_plan"
           /\ request[r].body \in ValidBodies)
          => /\ pc'[r] = "done"
             /\ response'[r] = Acknowledgement
             /\ calls' = calls
             /\ reply' = reply
             /\ GOOGLE_PLACES_API_KEY' = GOOGLE_PLACES_API_KEY
             /\ loop' = loop
             /\ OthersUnchanged(r)]_vars

C4_Witness ==
    \E r, s \in Ids :
        /\ pc[r] = "done" /\ request[r].op = "create_plan"
        /\ request[r].body = PlanBody(OtherProfile, OtherConfig)
        /\ response[r] = Acknowledgement
        /\ pc[s] = "pending"

----------------------------------------------------------------------------
(* C5, as stated: every request that one of the four handlers answered    *)
(* produced exactly one outbound upstream GET.                             *)
C5_ExactlyOneCall ==
    \A r \in Ids : (pc[r] = "done" /\ handler[r] # "") => Len(calls[r]) = 1

(* C5, amended: a request produces at most one outbound GET, issued before *)
(* its response: exactly one when it is a proxy request that passes        *)
(* validation (a Places one only with the credential configured), none     *)
(* otherwise; the response of a request with a call is the relay of the    *)
(* reply to that one call.                                                 *)
C5_AtMostOneCall ==
    \A r \in Ids :
        /\ Len(calls[r]) <= 1
        /\ pc[r] \in {"none", "pending"} => calls[r] = <<>>
        /\ pc[r] = "upstream" => Len(calls[r]) = 1 /\ response[r] = NoResponse
        /\ pc[r] = "done" =>
              /\ Len(calls[r]) = 1 <=>
                    /\ WellFormedGet(request[r])
                    /\ request[r].op \in PlacesOps => CredentialUsable
              /\ Len(calls[r]) = 1 => response[r] = RelayedOutcome(reply[r])

C5_Witness ==
    \E r, s \in Ids :
        /\ pc[r] = "done" /\ request[r].op = "create_plan" /\ calls[r] = <<>>
        /\ response[r].status = 200
        /\ pc[s] = "done" /\ request[s].op = "search_locations"
        /\ Len(calls[s]) = 1 /\ response[s].status = 200

----------------------------------------------------------------------------
(* C6: while one request waits for its upstream response, every other      *)
(* request that has arrived can still be handled and answered.             *)
CanBeHandled(s) ==
    ENABLED (\/ RejectInvalid(s) \/ create_plan(s) \/ search_locations(s)
             \/ places_textsearch(s) \/ places_details(s))

C6_OnlyInitiatorBlocked ==
    \A r, s \in Ids :
        (pc[r] = "upstream" /\ pc[s] = "pending") => CanBeHandled(s)

----------------------------------------------------------------------------
(* What the upstream must read in the URL of each operation *)

NominatimParams(q) ==
    << <<<<"f", "o", "r", "m", "a", "t">>, <<"j", "s", "o", "n">>>>,
       <<<<"q">>, q>>,
       <<<<"l", "i", "m", "i", "t">>, <<"5">>>>,
       <<<<"f", "e", "a", "t", "u", "r", "e", "t", "y", "p", "e">>,
         <<"c", "i", "t", "y", ",", "c", "o", "u", "n", "t", "r", "y">>>>,
       <<<<"a", "c", "c", "e", "p", "t", "-", "l", "a", "n", "g", "u", "a", "g", "e">>,
         <<"e", "n">>>> >>

TextsearchParams(query, key) ==
    << <<<<"q", "u", "e", "r", "y">>, query>>, <<<<"k", "e", "y">>, key>> >>

DetailsParams(place_id, fields, key) ==
    << <<<<"p", "l", "a", "c", "e", "_", "i", "d">>, place_id>>,
       <<<<"f", "i", "e", "l", "d", "s">>, fields>>,
       <<<<"k", "e", "y">>, key>> >>

FieldsSent(req) ==
    IF "fields" \in DOMAIN req.params THEN req.params["fields"]
    ELSE <<"o", "p", "e", "n", "i", "n", "g", "_", "h", "o", "u", "r", "s", ",", "n", "a", "m", "e">>

ExpectedEndpoint(req) ==
    CASE req.op = "search_locations" -> "https://nominatim.openstreetmap.org/search"
      [] req.op = "places_textsearch" ->
            "https://maps.googleapis.com/maps/api/place/textsearch/json"
      [] req.op = "places_details" ->
            "https://maps.googleapis.com/maps/api/place/details/json"

ExpectedParams(req, key) ==
    CASE req.op = "search_locations" -> NominatimParams(req.params["q"])
      [] req.op = "places_textsearch" -> TextsearchParams(req.params["query"], key)
      [] req.op = "places_details" ->
            DetailsParams(req.params["place_id"], FieldsSent(req), key)

\* the characters of the caller's values of a request
CallerText(req) ==
    CASE req.op = "search_locations" -> req.params["q"]
      [] req.op = "places_textsearch" -> req.params["query"]
      [] req.op = "places_details" -> req.params["place_id"] \o FieldsSent(req)

\* the URL of the same operation for empty values: its fixed characters
FixedUrl(req, key) ==
    CASE req.op = "search_locations" ->
            <<NominatimEndpoint>> \o NominatimQueryHead \o NominatimQueryTail
      [] req.op = "places_textsearch" ->
            <<TextsearchEndpoint>> \o TextsearchQueryHead \o KeyParam \o key
      [] req.op = "places_details" ->
            <<DetailsEndpoint>> \o DetailsQueryHead \o FieldsParam \o KeyParam \o key

\* the reserved characters that would show raw ('%' introduces an escape)
RawReserved == Reserved \ {"%"}

----------------------------------------------------------------------------
(* C7: in every outbound URL each caller-supplied value is percent-encoded:*)
(* no reserved character of the input appears raw in the URL, and the      *)
(* upstream reads exactly the parameters the handler wrote, each caller    *)
(* value intact and key still the credential.                              *)
NoRawReserved(req, url) ==
    \A c \in RawReserved \cap Range(CallerText(req)) :
        Count(Tail(url), c) = Count(Tail(FixedUrl(req, GOOGLE_PLACES_API_KEY.value)), c)

ParametersIntact(req, url) ==
    ParamsOf(url) = ExpectedParams(req, GOOGLE_PLACES_API_KEY.value)

C7_ReservedEncoded ==
    \A r \in Ids : \A i \in 1 .. Len(calls[r]) :
        /\ NoRawReserved(request[r], calls[r][i].url)
        /\ ParametersIntact(request[r], calls[r][i].url)

\* the part of C7 that holds of the code: no value adds or overrides a
\* parameter
C7_NoInjection ==
    \A r \in Ids : \A i \in 1 .. Len(calls[r]) :
        ParametersIntact(request[r], calls[r][i].url)

----------------------------------------------------------------------------
(* C8: no state carries over between requests: no step changes the         *)
(* credential or touches a request already answered, and two answered      *)
(* requests with the same parameters whose upstream gave the same reply    *)
(* issued the same calls and got identical responses, whatever happened to *)
(* the other requests.                                                     *)
SameOutcome ==
    \A r, s \in Ids :
        (/\ pc[r] = "done" /\ pc[s] = "done"
         /\ request[r] = request[s]
         /\ reply[r] = reply[s])
        => response[r] = response[s] /\ calls[r] = calls[s]

AnsweredIsFinal ==
    \A r \in Ids :
        pc[r] = "done" =>
            /\ pc'[r] = "done" /\ response'[r] = response[r]
            /\ calls'[r] = calls[r] /\ request'[r] = request[r]

C8_Stateless ==
    /\ []SameOutcome
    /\ [][GOOGLE_PLACES_API_KEY' = GOOGLE_PLACES_API_KEY /\ AnsweredIsFinal]_vars

C8_Witness ==
    \E r, s \in Ids :
        /\ r # s
        /\ pc[r] = "done" /\ pc[s] = "done"
        /\ request[r] = request[s]
        /\ request[r].op = "places_textsearch"
        /\ reply[r] = reply[s]
        /\ response[r].status = 502 /\ response[s].status = 502

----------------------------------------------------------------------------
(* C10: every Nominatim request carries the User-Agent header and the      *)
(* parameters format=json, limit=5, featuretype=city,country and           *)
(* accept-language=en around q, and neither a key parameter nor the        *)
(* credential; every Places request goes to the fixed text-search or       *)
(* details endpoint with the credential as its last parameter, key.        *)
C10_OutboundShape ==
    \A r \in Ids : \A i \in 1 .. Len(calls[r]) :
        LET c == calls[r][i]
            req == request[r]
            params == ParamsOf(c.url)
        IN  /\ c.url[1] = ExpectedEndpoint(req)
            /\ req.op = "search_locations" =>
                  /\ DOMAIN c.headers = {"User-Agent"}
                  /\ c.headers["User-Agent"]
                        = "JournalinTravelPlanner/1.0 (contact@example.com)"
                  /\ Len(params) = 5
                  /\ \A k \in {1, 3, 4, 5} :
                        params[k] = NominatimParams(<<>>)[k]
                  /\ params[2][1] = <<"q">>
                  /\ \/ GOOGLE_PLACES_API_KEY.value = <<>>
                     \/ ~Occurs(GOOGLE_PLACES_API_KEY.value, Tail(c.url))
            /\ req.op \in PlacesOps =>
                  /\ CredentialUsable
                  /\ params[Len(params)] = <<<<"k", "e", "y">>, GOOGLE_PLACES_API_KEY.value>>
                  /\ \A k \in 1 .. (Len(params) - 1) : params[k][1] # <<"k", "e", "y">>

C10_Witness ==
    \E r \in Ids :
        /\ pc[r] = "done"
        /\ request[r].op = "search_locations"
        /\ request[r].params = [q |-> Inject]
        /\ CredentialUsable
        /\ Len(calls[r]) = 1

====
